---- MODULE Spec2Model ----
(***************************************************************************)
(* Model of enaplo.py: the Event value, the CalendarModel event store      *)
(* (load, save, events_on_day, add_event, delete_event) and the handlers   *)
(* of CalendarApp that drive it.                                           *)
(*                                                                         *)
(* Texts that the code formats or parses (the ISO date-time of the file,   *)
(* the HH:MM prompt, the rows of the list box) are sequences of            *)
(* one-character strings.  A Python object is a record with an `id`, its   *)
(* identity; two events are the same object iff their ids are equal.       *)
(***************************************************************************)
EXTENDS Integers, Sequences, FiniteSets, TLC

\* Largest number of events the store holds when it is called directly.
MaxLen == 3

\* Largest number of events the store holds while the application runs.
MaxAppLen == 2

VARIABLES
    events,     \* CalendarModel._events: sequence of Event objects
    file,       \* DATA_FILE: whether it exists and the JSON list it holds
    cal,        \* the date selected in the Calendar widget
    rows,       \* the items of the Listbox event_list
    sel,        \* event_list.curselection(): <<>> or <<index>> (0-based)
    last        \* the latest call or handler run, its inputs and its outcome

vars == <<events, file, cal, rows, sel, last>>

----------------------------------------------------------------------------
(* Dates, times and texts *)

Digits == <<"0", "1", "2", "3", "4", "5", "6", "7", "8", "9">>

IsDigit(c) == \E i \in 1..10 : Digits[i] = c

DigitVal(c) == (CHOOSE i \in 1..10 : Digits[i] = c) - 1

\* "%02d"
Pad2(n) == <<Digits[((n \div 10) % 10) + 1], Digits[(n % 10) + 1]>>

\* "%04d"
Pad4(n) == Pad2(n \div 100) \o Pad2(n % 100)

\* Value of a text of decimal digits.
RECURSIVE Num(_)
Num(s) == IF s = <<>> THEN 0 ELSE 10 * Num(SubSeq(s, 1, Len(s) - 1)) + DigitVal(s[Len(s)])

\* datetime(year, month, day, hour, minute, second)
DateTime(y, mo, d, h, mi, s) ==
    [year |-> y, month |-> mo, day |-> d, hour |-> h, minute |-> mi, second |-> s]

\* datetime.date()
date(dt) == <<dt.year, dt.month, dt.day>>

\* The order of datetime values: lexicographic on the fields.
DtKey(dt) == <<dt.year, dt.month, dt.day, dt.hour, dt.minute, dt.second>>

RECURSIVE TupleLess(_, _)
TupleLess(a, b) ==
    IF a = <<>> \/ b = <<>> THEN FALSE
    ELSE IF a[1] # b[1] THEN a[1] < b[1]
    ELSE TupleLess(Tail(a), Tail(b))

DtLess(a, b) == TupleLess(DtKey(a), DtKey(b))

\* datetime.isoformat() of a value without microseconds: YYYY-MM-DDTHH:MM:SS
isoformat(dt) ==
    Pad4(dt.year) \o <<"-">> \o Pad2(dt.month) \o <<"-">> \o Pad2(dt.day) \o <<"T">>
        \o Pad2(dt.hour) \o <<":">> \o Pad2(dt.minute) \o <<":">> \o Pad2(dt.second)

\* datetime.fromisoformat() of such a text
fromisoformat(s) ==
    DateTime(Num(SubSeq(s, 1, 4)), Num(SubSeq(s, 6, 7)), Num(SubSeq(s, 9, 10)),
             Num(SubSeq(s, 12, 13)), Num(SubSeq(s, 15, 16)), Num(SubSeq(s, 18, 19)))

\* datetime.strptime(cal.get_date(), "%Y-%m-%d"): the selected day at 00:00:00.
\* get_date() formats the selected date with date_pattern "yyyy-mm-dd".
get_date(d) == Pad4(d[1]) \o <<"-">> \o Pad2(d[2]) \o <<"-">> \o Pad2(d[3])

strptime(s) ==
    DateTime(Num(SubSeq(s, 1, 4)), Num(SubSeq(s, 6, 7)), Num(SubSeq(s, 9, 10)), 0, 0, 0)

----------------------------------------------------------------------------
(* Event *)

\* Event.__init__; id is the identity of the object created.
Event(id, title, dt, description) ==
    [id |-> id, title |-> title, dt |-> dt, description |-> description]

NoEvent == Event(0, "", DateTime(0, 0, 0, 0, 0, 0), "")

\* Event.to_dict
to_dict(e) == [title |-> e.title, dt |-> isoformat(e.dt), description |-> e.description]

\* from_dict reading the description under a key the file never has.
from_dict_nodesc(data, id) ==
    Event(id, data.title, fromisoformat(data.dt), "")

\* Event.from_dict; description defaults to "" when the key is missing.
from_dict(data, id) ==
    Event(id, data.title, fromisoformat(data.dt),
          IF "description" \in DOMAIN data THEN data.description ELSE "")

\* Event.__str__: "%H:%M", two spaces, the title.
EventStr(e) == Pad2(e.dt.hour) \o <<":">> \o Pad2(e.dt.minute) \o <<" ", " ", e.title>>

\* == on events as field equality.
EventEq_byvalue(a, b) ==
    a.title = b.title /\ a.dt = b.dt /\ a.description = b.description

\* == on events.  Event defines no __eq__, so it is object identity.
EventEq(a, b) == a.id = b.id

\* The fields of an event, without its identity.
Fields(e) == [title |-> e.title, dt |-> e.dt, description |-> e.description]

FieldsOf(evs) == [i \in 1..Len(evs) |-> Fields(evs[i])]

----------------------------------------------------------------------------
(* CalendarModel *)

NoFile == [exists |-> FALSE, data |-> <<>>]

\* save appending to the file instead of writing over it.
save_append(evs) ==
    [exists |-> TRUE, data |-> file.data \o [i \in 1..Len(evs) |-> to_dict(evs[i])]]

\* CalendarModel.save: the whole list is written over the file.
save(evs) == [exists |-> TRUE, data |-> [i \in 1..Len(evs) |-> to_dict(evs[i])]]

\* CalendarModel.load: the events of the file as new objects; the list is
\* left as it is when the file does not exist.
load(evs, f) ==
    IF f.exists THEN [i \in 1..Len(f.data) |-> from_dict(f.data[i], i)] ELSE evs

\* sorted(list, key = e.dt): a stable insertion of x after every element
\* whose key is not greater.
RECURSIVE InsertByDt(_, _)
InsertByDt(s, x) ==
    IF s = <<>> THEN <<x>>
    ELSE IF DtLess(x.dt, s[Len(s)].dt)
         THEN Append(InsertByDt(SubSeq(s, 1, Len(s) - 1), x), s[Len(s)])
         ELSE Append(s, x)

\* sorted leaving the list in the order of insertion.
sorted_unsorted(s) == s

RECURSIVE sorted(_)
sorted(s) ==
    IF s = <<>> THEN <<>>
    ELSE InsertByDt(sorted(SubSeq(s, 1, Len(s) - 1)), s[Len(s)])

\* CalendarModel.events_on_day
OnDay(e, day) == date(e.dt) = date(day)

events_on_day(evs, day) == sorted(SelectSeq(evs, LAMBDA e : OnDay(e, day)))

\* list.remove taking the last equal element instead of the first.
IndexOf_last(evs, e) ==
    IF \E i \in 1..Len(evs) : EventEq(evs[i], e)
    THEN CHOOSE i \in 1..Len(evs) :
            /\ EventEq(evs[i], e)
            /\ \A j \in (i + 1)..Len(evs) : ~EventEq(evs[j], e)
    ELSE 0

\* list.remove dropping the last element when none is equal.
IndexOf_orlast(evs, e) ==
    IF \E i \in 1..Len(evs) : EventEq(evs[i], e)
    THEN CHOOSE i \in 1..Len(evs) :
            /\ EventEq(evs[i], e)
            /\ \A j \in 1..(i - 1) : ~EventEq(evs[j], e)
    ELSE Len(evs)

\* list.remove: the index of the first element equal to e, 0 when there is none.
IndexOf(evs, e) ==
    IF \E i \in 1..Len(evs) : EventEq(evs[i], e)
    THEN CHOOSE i \in 1..Len(evs) :
            /\ EventEq(evs[i], e)
            /\ \A j \in 1..(i - 1) : ~EventEq(evs[j], e)
    ELSE 0

RemoveAt(evs, i) == SubSeq(evs, 1, i - 1) \o SubSeq(evs, i + 1, Len(evs))

\* The identity of a newly created object: one no object of the store has.
FreshId(evs) ==
    CHOOSE n \in 1..(Len(evs) + 1) :
        /\ \A i \in 1..Len(evs) : evs[i].id # n
        /\ \A m \in 1..(n - 1) : \E i \in 1..Len(evs) : evs[i].id = m

----------------------------------------------------------------------------
(* Inputs *)

Days == {<<2024, 5, 1>>, <<2024, 5, 2>>}

\* The day d, as the datetime the handlers and callers pass around.
DayOf(d) == strptime(get_date(d))

\* The events a caller of the store constructs.
ClientFields ==
    { [title |-> "A", dt |-> DateTime(2024, 5, 1, 9, 0, 0), description |-> ""],
      [title |-> "B", dt |-> DateTime(2024, 5, 1, 8, 30, 0), description |-> "d"],
      [title |-> "A", dt |-> DateTime(2024, 5, 2, 9, 0, 0), description |-> ""] }

\* The events a caller can pass: an object of the store, or a new object.
ArgEvents ==
    { events[i] : i \in 1..Len(events) }
        \cup { Event(FreshId(events), f.title, f.dt, f.description) : f \in ClientFields }

\* The record of a call: what ran, how it ended and what it was given.
Call(op, outcome) ==
    [op |-> op, outcome |-> outcome, e |-> NoEvent, time_str |-> {}, after |-> "",
     events0 |-> <<>>, file0 |-> NoFile, date |-> <<0, 0, 0>>, result |-> <<>>]

----------------------------------------------------------------------------
(* The store, called directly *)

Init ==
    /\ events = <<>>
    /\ file = NoFile
    /\ cal = <<2024, 5, 1>>
    /\ rows = <<>>
    /\ sel = <<>>
    /\ last = Call("init", "ok")

\* CalendarModel.add_event(e)
add_event(e) ==
    /\ events' = Append(events, e)
    /\ file' = save(events')

\* delete_event that does not save.
delete_event_nosave(e) ==
    IF IndexOf(events, e) = 0
    THEN UNCHANGED <<events, file>>
    ELSE /\ events' = RemoveAt(events, IndexOf(events, e))
         /\ UNCHANGED file

\* CalendarModel.delete_event(e): list.remove raises ValueError before save
\* when no element equals e.
delete_event(e) ==
    IF IndexOf(events, e) = 0
    THEN UNCHANGED <<events, file>>
    ELSE /\ events' = RemoveAt(events, IndexOf(events, e))
         /\ file' = save(events')

StoreAddEvent ==
    \E e \in ArgEvents :
        /\ Len(events) < MaxLen
        /\ add_event(e)
        /\ last' = [Call("add_event", "ok") EXCEPT
                        !.e = e, !.events0 = events, !.file0 = file]
        /\ UNCHANGED <<cal, rows, sel>>

StoreDeleteEvent ==
    \E e \in ArgEvents :
        /\ delete_event(e)
        /\ last' = [Call("delete_event",
                         IF IndexOf(events, e) = 0 THEN "ValueError" ELSE "ok") EXCEPT
                        !.e = e,
                        !.events0 = IF last.op = "add_event" /\ last.e = e
                                    THEN last.events0 ELSE <<>>,
                        !.file0 = IF last.op = "add_event" /\ last.e = e
                                  THEN last.file0 ELSE NoFile]
        /\ UNCHANGED <<cal, rows, sel>>

StoreEventsOnDay ==
    \E d \in Days :
        /\ last' = [Call("events_on_day", "ok") EXCEPT
                        !.date = d, !.result = events_on_day(events, DayOf(d))]
        /\ UNCHANGED <<events, file, cal, rows, sel>>

StoreSave ==
    /\ file' = save(events)
    /\ last' = Call("save", "ok")
    /\ UNCHANGED <<events, cal, rows, sel>>

StoreLoad ==
    /\ events' = load(events, file)
    /\ last' = [Call("load", "ok") EXCEPT !.after = last.op]
    /\ UNCHANGED <<file, cal, rows, sel>>

NextStore ==
    \/ StoreAddEvent
    \/ StoreDeleteEvent
    \/ StoreEventsOnDay
    \/ StoreSave
    \/ StoreLoad

SpecStore == Init /\ [][NextStore]_vars

----------------------------------------------------------------------------
(* The prompts of the add dialog *)

\* What simpledialog.askstring returns is {} for None (the prompt was
\* cancelled) and {text} for a text.

\* `x or default`, and `not x`: None and the empty text are false.
OrElse(answer, empty, default) ==
    IF answer = {} \/ answer = {empty} THEN default ELSE CHOOSE t \in answer : TRUE

\* str.split(":")
RECURSIVE split(_)
split(s) ==
    IF \E i \in 1..Len(s) : s[i] = ":"
    THEN LET i == CHOOSE k \in 1..Len(s) : s[k] = ":" /\ \A j \in 1..(k - 1) : s[j] # ":"
         IN  <<SubSeq(s, 1, i - 1)>> \o split(SubSeq(s, i + 1, Len(s)))
    ELSE <<s>>

\* str.strip() of the blanks int() ignores
RECURSIVE strip(_)
strip(s) ==
    IF s # <<>> /\ s[1] = " " THEN strip(Tail(s))
    ELSE IF s # <<>> /\ s[Len(s)] = " " THEN strip(SubSeq(s, 1, Len(s) - 1))
    ELSE s

\* int(text): blanks around, an optional sign, at least one digit.
\* ok is FALSE where int raises ValueError.
int(text) ==
    LET t == strip(text)
        signed == t # <<>> /\ t[1] \in {"+", "-"}
        body == IF signed THEN Tail(t) ELSE t
        ok == body # <<>> /\ \A i \in 1..Len(body) : IsDigit(body[i])
    IN  [ok |-> ok,
         val |-> IF ~ok THEN 0
                 ELSE IF signed /\ t[1] = "-" THEN 0 - Num(body) ELSE Num(body)]

\* The time taken without the range check of datetime.replace.
ParseTime_norange(day, text) ==
    LET parts == split(text)
        h == int(parts[1])
        m == int(parts[2])
        ok == Len(parts) = 2 /\ h.ok /\ m.ok
    IN  [ok |-> ok,
         dt |-> IF ok THEN [day EXCEPT !.hour = h.val, !.minute = m.val] ELSE day]

\* hour, minute = map(int, time_str.split(":")); day.replace(hour, minute).
\* ok is FALSE where the unpacking, int or replace raises ValueError.
ParseTime(day, text) ==
    LET parts == split(text)
        h == int(parts[1])
        m == int(parts[2])
        ok == /\ Len(parts) = 2
              /\ h.ok /\ m.ok
              /\ h.val \in 0..23 /\ m.val \in 0..59
    IN  [ok |-> ok,
         dt |-> IF ok THEN [day EXCEPT !.hour = h.val, !.minute = m.val] ELSE day]

\* The answers given to the three prompts of one run of the add dialog.
Answers(title, time_str, desc) == [title |-> title, time_str |-> time_str, desc |-> desc]

AddInputs ==
    { Answers({}, {}, {}),                                       \* title cancelled
      Answers({""}, {}, {}),                                     \* title empty
      Answers({"A"}, {<<"9", ":", "5">>}, {}),                   \* 9:5
      Answers({"A"}, {<<"0", "9", ":", "0", "5">>}, {""}),       \* 09:05
      Answers({"B"}, {}, {"d"}),                                 \* time cancelled
      Answers({"B"}, {<<>>}, {"d"}),                             \* time empty
      Answers({"A"}, {<<"a", "b", "c">>}, {}),                   \* abc
      Answers({"A"}, {<<"1", "4", "3", "0">>}, {}),              \* 1430
      Answers({"A"}, {<<"2", "5", ":", "9", "9">>}, {}),         \* 25:99
      Answers({"A"}, {<<"1", ":", "2", ":", "3">>}, {}) }        \* 1:2:3

----------------------------------------------------------------------------
(* CalendarApp *)

\* What _update_event_list leaves in the list box for the list evs and the
\* selected date d.
ListOf(evs, d) ==
    LET shown == events_on_day(evs, DayOf(d))
    IN  [i \in 1..Len(shown) |-> EventStr(shown[i])]

\* _update_event_list run before the store is changed.
update_event_list_stale ==
    /\ rows' = ListOf(events, cal')
    /\ sel' = <<>>

\* CalendarApp._update_event_list: every item is deleted, which clears the
\* selection, and the events of the day are inserted.
update_event_list ==
    /\ rows' = ListOf(events', cal')
    /\ sel' = <<>>

\* CalendarApp.__init__ of a new process: the store is loaded from the
\* file, the calendar shows today.
Restart ==
    \E today \in Days :
        /\ events' = load(<<>>, file)
        /\ cal' = today
        /\ update_event_list
        /\ last' = Call("restart", "ok")
        /\ UNCHANGED file

\* A date selection that sorts the list of the store in place.
SelectDate_sortsinplace ==
    \E d \in Days :
        /\ cal' = d
        /\ events' = sorted(events)
        /\ UNCHANGED file
        /\ update_event_list
        /\ last' = [Call("select_date", "ok") EXCEPT !.date = d]

\* <<CalendarSelected>>
SelectDate ==
    \E d \in Days :
        /\ cal' = d
        /\ UNCHANGED <<events, file>>
        /\ update_event_list
        /\ last' = [Call("select_date", "ok") EXCEPT !.date = d]

\* A click on a row of the list box.
SelectRow ==
    \E i \in 0..(Len(rows) - 1) :
        /\ sel' = <<i>>
        /\ last' = Call("select_row", "ok")
        /\ UNCHANGED <<events, file, cal, rows>>

\* CalendarApp._add_event_dialog
AddEventDialog ==
    \E in \in AddInputs :
        LET title == in.title
            time_str == in.time_str
            desc == in.desc
            day == DayOf(cal)
            t == ParseTime(day, OrElse(time_str, <<>>, <<"0", "0", ":", "0", "0">>))
            event == Event(FreshId(events), OrElse(title, "", ""), t.dt, OrElse(desc, "", ""))
        IN  IF OrElse(title, "", "") = ""
            THEN /\ last' = Call("add", "no_title")
                 /\ UNCHANGED <<events, file, cal, rows, sel>>
            ELSE IF ~t.ok
            THEN /\ last' = [Call("add", "showerror") EXCEPT !.time_str = time_str]
                 /\ UNCHANGED <<events, file, cal, rows, sel>>
            ELSE /\ Len(events) < MaxAppLen
                 /\ add_event(event)
                 /\ UNCHANGED cal
                 /\ update_event_list
                 /\ last' = [Call("add", "added") EXCEPT !.e = event, !.time_str = time_str]

\* CalendarApp._delete_selected_event
DeleteSelectedEvent ==
    \E yes \in BOOLEAN :
        LET shown == events_on_day(events, DayOf(cal))
            idx == sel[1]
            event == shown[idx + 1]
        IN  IF sel = <<>>
            THEN /\ last' = Call("delete", "no_selection")
                 /\ UNCHANGED <<events, file, cal, rows, sel>>
            ELSE IF idx >= Len(shown)
            THEN /\ last' = Call("delete", "IndexError")
                 /\ UNCHANGED <<events, file, cal, rows, sel>>
            ELSE IF ~yes
            THEN /\ last' = [Call("delete", "declined") EXCEPT !.e = event]
                 /\ UNCHANGED <<events, file, cal, rows, sel>>
            ELSE IF IndexOf(events, event) = 0
            THEN /\ last' = [Call("delete", "ValueError") EXCEPT !.e = event]
                 /\ UNCHANGED <<events, file, cal, rows, sel>>
            ELSE /\ delete_event(event)
                 /\ UNCHANGED cal
                 /\ update_event_list
                 /\ last' = [Call("delete", "deleted") EXCEPT !.e = event]

\* CalendarApp._show_event_details
ShowEventDetails ==
    LET shown == events_on_day(events, DayOf(cal))
        idx == sel[1]
    IN  /\ last' = IF sel = <<>> THEN Call("details", "no_selection")
                   ELSE IF idx >= Len(shown) THEN Call("details", "IndexError")
                   ELSE [Call("details", "shown") EXCEPT !.e = shown[idx + 1]]
        /\ UNCHANGED <<events, file, cal, rows, sel>>

Next ==
    \/ Restart
    \/ SelectDate
    \/ SelectRow
    \/ AddEventDialog
    \/ DeleteSelectedEvent
    \/ ShowEventDetails

Spec == Init /\ [][Next]_vars

----------------------------------------------------------------------------
(* Properties of the store *)

\* How many times x occurs in the sequence s.
Count(s, x) == Cardinality({i \in 1..Len(s) : s[i] = x})

Range(s) == {s[i] : i \in 1..Len(s)}

TimeOfDay(dt) == 60 * dt.hour + dt.minute

\* Whether the store held an event with the fields of e.
HasFields(evs, e) ==
    \E i \in 1..Len(evs) :
        /\ evs[i].title = e.title
        /\ evs[i].dt = e.dt
        /\ evs[i].description = e.description

\* Whether the store held the object e.
HasObject(evs, e) == \E i \in 1..Len(evs) : evs[i].id = e.id

\* evs without its element at position p.
Without(evs, rest, p) ==
    /\ Len(rest) = Len(evs) - 1
    /\ \A k \in 1..Len(rest) : rest[k] = IF k < p THEN evs[k] ELSE evs[k + 1]

\* C1: what events_on_day(d) returns is exactly the events of the store
\* whose date is d, each as often as the store holds it, in ascending order
\* of the time of day.
C1_EventsOnDay ==
    last.op = "events_on_day" =>
        /\ \A e \in Range(events) \cup Range(last.result) :
              Count(last.result, e) =
                  IF <<e.dt.year, e.dt.month, e.dt.day>> = last.date
                  THEN Count(events, e) ELSE 0
        /\ \A i, j \in 1..Len(last.result) :
              i < j => TimeOfDay(last.result[i].dt) <= TimeOfDay(last.result[j].dt)

\* C1 witness: a query whose result is in another order than the store,
\* while the store also holds an event of another day.
C1_Witness ==
    /\ last.op = "events_on_day"
    /\ Len(last.result) >= 2
    /\ \E i \in 1..Len(events) : events[i].id = last.result[2].id /\
          \E j \in (i + 1)..Len(events) : events[j].id = last.result[1].id
    /\ Len(events) > Len(last.result)

\* C2: a load that follows a save yields the collection that was saved:
\* as many events, in the same order, each with the same title, date-time
\* and description.
C2_RoundTrip ==
    [][ (last.op = "save" /\ last'.op = "load") =>
            /\ Len(events') = Len(events)
            /\ \A i \in 1..Len(events) :
                  /\ events'[i].title = events[i].title
                  /\ events'[i].dt = events[i].dt
                  /\ events'[i].description = events[i].description ]_vars

\* C2 witness: a load after a save of events with and without description.
C2_Witness ==
    /\ last.op = "load" /\ last.after = "save"
    /\ Len(events) >= 2
    /\ \E i, j \in 1..Len(events) :
          events[i].description = "" /\ events[j].description # ""

\* C3 as stated: add_event(e) followed by delete_event(e) leaves the list
\* and the persisted events as they were before the add, for every event e.
C3_Original ==
    [][ (last.op = "add_event" /\ last'.op = "delete_event" /\ last'.e = last.e) =>
            /\ events' = last.events0
            /\ file'.data = last.file0.data ]_vars

\* C3 amended: the same, for every event e that was not in the store as an
\* object before the add.
C3_AddThenDelete ==
    [][ (/\ last.op = "add_event" /\ last'.op = "delete_event" /\ last'.e = last.e
         /\ ~HasObject(last.events0, last.e)) =>
            /\ events' = last.events0
            /\ file'.data = last.file0.data ]_vars

\* C3 witness: a new event with the fields of one in the store was added
\* and then deleted.
C3_Witness ==
    /\ last.op = "delete_event" /\ last.outcome = "ok"
    /\ Len(last.events0) >= 2
    /\ ~HasObject(last.events0, last.e)
    /\ HasFields(last.events0, last.e)
    /\ last.events0[1].title # last.e.title

\* C6 as stated: delete_event(e) removes one event with the fields of e
\* whenever the store holds such an event, and then saves.
C6_Original ==
    [][ (last'.op = "delete_event" /\ HasFields(events, last'.e)) =>
            /\ \E p \in 1..Len(events) :
                  /\ events[p].title = last'.e.title
                  /\ events[p].dt = last'.e.dt
                  /\ events[p].description = last'.e.description
                  /\ Without(events, events', p)
            /\ file'.exists
            /\ file'.data = [i \in 1..Len(events') |-> to_dict(events'[i])] ]_vars

\* C6 amended: delete_event(e) matches by identity.  When the store holds
\* the object e, its first occurrence is removed and the list is saved; when
\* it holds only other objects, with the fields of e or not, ValueError is
\* raised and the list and the file are unchanged.
C6_DeleteByIdentity ==
    [][ last'.op = "delete_event" =>
            IF HasObject(events, last'.e)
            THEN /\ \E p \in 1..Len(events) :
                       /\ events[p].id = last'.e.id
                       /\ \A k \in 1..(p - 1) : events[k].id # last'.e.id
                       /\ Without(events, events', p)
                 /\ file'.exists
                 /\ file'.data = [i \in 1..Len(events') |-> to_dict(events'[i])]
                 /\ last'.outcome = "ok"
            ELSE /\ UNCHANGED <<events, file>>
                 /\ last'.outcome = "ValueError" ]_vars

\* C6 witness: a delete of a new object with the fields of a stored event.
C6_Witness ==
    /\ last.op = "delete_event" /\ last.outcome = "ValueError"
    /\ HasFields(events, last.e)
    /\ ~HasObject(events, last.e)

\* C7: delete_event(e) when no event of the store has the fields of e
\* fails, and leaves the list and the file unchanged.
C7_DeleteMissing ==
    [][ (last'.op = "delete_event" /\ ~HasFields(events, last'.e)) =>
            /\ UNCHANGED <<events, file>>
            /\ last'.outcome = "ValueError" ]_vars

\* C7 witness: a failed delete on a store that holds other events.
C7_Witness ==
    /\ last.op = "delete_event" /\ last.outcome = "ValueError"
    /\ Len(events) >= 2
    /\ ~HasFields(events, last.e)

----------------------------------------------------------------------------
(* Properties of the application *)

\* C4: after every completed add or delete the file exists and holds the
\* list, and at any time a new load of the file gives the fields of the list.
C4_FileIsList ==
    /\ (last.outcome \in {"added", "deleted"} =>
            /\ file.exists
            /\ Len(file.data) = Len(events)
            /\ \A i \in 1..Len(events) : file.data[i] = to_dict(events[i]))
    /\ LET again == load(<<>>, file)
       IN  /\ Len(again) = Len(events)
           /\ \A i \in 1..Len(events) :
                 /\ again[i].title = events[i].title
                 /\ again[i].dt = events[i].dt
                 /\ again[i].description = events[i].description

\* C4 witness: a delete that left events behind.
C4_Witness ==
    /\ last.op = "delete" /\ last.outcome = "deleted"
    /\ Len(events) >= 1
    /\ Len(file.data) = Len(events)

\* A text of two fields of digits separated by one colon, with the hour in
\* 0..23 and the minute in 0..59.
IsHHMM(text) ==
    \E c \in 2..(Len(text) - 1) :
        /\ text[c] = ":"
        /\ \A i \in 1..Len(text) : i # c => text[i] \in Range(Digits)
        /\ Num(SubSeq(text, 1, c - 1)) \in 0..23
        /\ Num(SubSeq(text, c + 1, Len(text))) \in 0..59

C8_Frame ==
    [][ /\ (\/ last'.op \in {"select_date", "select_row", "details"}
            \/ last'.outcome \in {"no_title", "no_selection", "declined"})
           => UNCHANGED <<events, file>>
        /\ (FieldsOf(events') # FieldsOf(events) \/ file' # file)
           => last'.outcome \in {"added", "deleted"} ]_vars

\* C8 witness: a declined delete on a store with events.
C8_Witness ==
    /\ last.op = "delete" /\ last.outcome = "declined"
    /\ Len(events) >= 2

\* C9: the list box shows the events of the selected date: one row for each
\* event of events_on_day, in its order, with its time and title.
C9_ListShowsDay ==
    LET shown == events_on_day(events, DateTime(cal[1], cal[2], cal[3], 0, 0, 0))
    IN  /\ Len(rows) = Len(shown)
        /\ \A i \in 1..Len(shown) :
              rows[i] = Pad2(shown[i].dt.hour) \o <<":">> \o Pad2(shown[i].dt.minute)
                            \o <<" ", " ">> \o <<shown[i].title>>

\* C9 witness: after an add the list shows two events in another order
\* than the store holds them.
C9_Witness ==
    /\ last.op = "add" /\ last.outcome = "added"
    /\ Len(rows) >= 2
    /\ rows[1] = EventStr(last.e)
    /\ rows[1] # rows[2]

====
